---- MODULE Spec2Model ----
(***************************************************************************)
(* Model of media_manager/torrent/utils.py: the recursive file scan, the   *)
(* archive expansion pass, the classification done by import_torrent, and  *)
(* the hardlink-with-copy-fallback of import_file.                         *)
(*                                                                         *)
(* A file name is a pair <<stem, suffix>>, a path is the sequence of names *)
(* below the torrent directory (the torrent directory itself is <<>>), and *)
(* a MIME type is a pair <<major, minor>>.                                 *)
(***************************************************************************)
EXTENDS Naturals, Sequences, FiniteSets

VARIABLES
    fs,             \* the directory tree: path -> kind of entry
    platformZip,    \* the MIME type this platform's type table gives ".zip"
    pc,             \* position of import_torrent
    all_files,      \* import_torrent's all_files
    video_files,    \* import_torrent's video_files
    subtitle_files, \* import_torrent's subtitle_files
    idx,            \* position of extract_archives' for loop in its argument
    listA,          \* history: the list the first scan returned
    handed,         \* history: the calls made to patoolib.extract_archive
    produced,       \* history: the paths written by patoolib.extract_archive
    errorLog,       \* the log.error records, in order
    trace,          \* history: the steps import_torrent has taken
    outcome,        \* "running", "returned" or "raised"
    links,          \* import_file's file system: path -> inode (0: no entry)
    data,           \* inode -> content
    ipc,            \* position of import_file
    call,           \* the import_file call in progress
    hist            \* history: the completed import_file calls

tvars == <<fs, platformZip, pc, all_files, video_files, subtitle_files, idx,
           listA, handed, produced, errorLog, trace, outcome>>
ivars == <<links, data, ipc, call, hist>>
vars == <<tvars, ivars>>

(***************************************************************************)
(* Bounds of the model.                                                    *)
(***************************************************************************)
\* entries present under the torrent directory before import_torrent runs
MaxEntries == 3
\* files one call of the extraction routine may write
MaxMembers == 2
\* import_file calls in one behaviour
MaxCalls == 2

(***************************************************************************)
(* The universe of names and paths.                                        *)
(***************************************************************************)
Root == <<>>
SubDir == <<"sub", "">>
Pipe == <<"pipe", "">>
ZipName == <<"a", ".zip">>
RarName == <<"b", ".rar">>
MkvName == <<"m", ".mkv">>
SrtName == <<"s", ".srt">>
UpperSrtName == <<"S", ".SRT">>
NfoName == <<"n", ".nfo">>

FileNames == {ZipName, RarName, MkvName, SrtName, UpperSrtName, NfoName}
\* names an archive of the model may hold
MemberNames == {MkvName, RarName, SrtName}
\* names the subdirectory of the model may hold
SubNames == MemberNames \cup {ZipName}
TopNames == FileNames \cup {SubDir, Pipe}
FilePaths == {<<n>> : n \in FileNames} \cup {<<SubDir, n>> : n \in SubNames}
Paths == {Root} \cup {<<n>> : n \in TopNames} \cup {<<SubDir, n>> : n \in SubNames}

\* the order of names a directory listing follows, ascending or descending
NameRank(n) ==
    CASE n = ZipName -> 1
      [] n = RarName -> 2
      [] n = MkvName -> 3
      [] n = SrtName -> 4
      [] n = UpperSrtName -> 5
      [] n = NfoName -> 6
      [] n = SubDir -> 7
      [] n = Pipe -> 8

\* fs gives each path one of: "absent", "file", "dir", "dir_noread" (a
\* directory that cannot be listed), "fifo", "link_file", "link_dir",
\* "link_dangling" (a symbolic link to a file, to a directory, to nothing)

NoType == <<"None", "None">>
ZipTypes == {<<"application", "zip">>, <<"application", "x-zip-compressed">>}

(***************************************************************************)
(* pathlib and mimetypes, as the functions of utils.py use them.           *)
(***************************************************************************)
\* Path.parent
Parent(p) == SubSeq(p, 1, Len(p) - 1)

\* Path.suffix
Suffix(p) == p[Len(p)][2]

\* Path.is_dir(): follows symbolic links
is_dir(fsys, p) == fsys[p] \in {"dir", "dir_noread", "link_dir"}

\* Path.is_symlink()
is_symlink(fsys, p) == fsys[p] \in {"link_file", "link_dir", "link_dangling"}

\* str.lower() on the suffixes of the model
Lower(ext) == IF ext = ".SRT" THEN ".srt" ELSE ext

\* mimetypes.types_map: the platform's table from suffix to type
types_map(zt, ext) ==
    CASE ext = ".zip" -> zt
      [] ext = ".rar" -> <<"application", "vnd.rar">>
      [] ext = ".mkv" -> <<"video", "x-matroska">>
      [] ext = ".srt" -> <<"text", "plain">>
      [] OTHER -> NoType

\* mimetypes.guess_type(name)[0]: the suffix as given, then lower-cased
guess_type(zt, p) ==
    IF types_map(zt, Suffix(p)) # NoType
    THEN types_map(zt, Suffix(p))
    ELSE types_map(zt, Lower(Suffix(p)))

RECURSIVE SortNames(_, _)
\* the names of S as a sequence, ascending by NameRank, or descending
SortNames(S, desc) ==
    IF S = {} THEN <<>>
    ELSE LET n == CHOOSE x \in S : \A y \in S :
                      IF desc THEN NameRank(x) >= NameRank(y)
                              ELSE NameRank(x) <= NameRank(y)
         IN <<n>> \o SortNames(S \ {n}, desc)

\* os.scandir(d) as glob uses it: the entries of d in directory order, none
\* when d cannot be read (glob swallows the PermissionError)
Listing(fsys, d, desc) ==
    IF fsys[d] # "dir" THEN <<>>
    ELSE LET names == {n \in TopNames : Append(d, n) \in Paths
                                        /\ fsys[Append(d, n)] # "absent"}
             sorted == SortNames(names, desc)
         IN [i \in 1..Len(sorted) |-> Append(d, sorted[i])]

RECURSIVE GlobUnder(_, _, _)
RECURSIVE GlobEach(_, _, _)
\* the "**" selector over the entries of one directory: each real
\* (non-symlink) subdirectory among them is searched in turn
GlobEach(fsys, entries, desc) ==
    IF entries = <<>> THEN <<>>
    ELSE (IF is_dir(fsys, Head(entries)) /\ ~is_symlink(fsys, Head(entries))
          THEN GlobUnder(fsys, Head(entries), desc) ELSE <<>>)
         \o GlobEach(fsys, Tail(entries), desc)

\* "**/*" from directory d: d's entries, then those below its subdirectories
GlobUnder(fsys, d, desc) ==
    LET here == Listing(fsys, d, desc)
    IN here \o GlobEach(fsys, here, desc)

\* a glob that raises FileNotFoundError for a path that is no directory
GlobRaising(fsys, path, desc) ==
    IF ~is_dir(fsys, path)
    THEN [raised |-> TRUE, entries |-> <<>>]
    ELSE [raised |-> FALSE, entries |-> GlobUnder(fsys, path, desc)]

\* list(path.glob("**/*")): nothing when path is no directory, no error
Glob(fsys, path, desc) ==
    IF ~is_dir(fsys, path)
    THEN [raised |-> FALSE, entries |-> <<>>]
    ELSE [raised |-> FALSE, entries |-> GlobUnder(fsys, path, desc)]

\* list_files_recursively without the symlink test
ListNoSymlinkTest(fsys, path, desc) ==
    LET g == Glob(fsys, path, desc)
        Keep(x) == ~is_dir(fsys, x)
    IN [raised |-> g.raised, files |-> SelectSeq(g.entries, Keep)]

\* list_files_recursively
list_files_recursively(fsys, path, desc) ==
    LET g == Glob(fsys, path, desc)
        Keep(x) == ~is_dir(fsys, x) /\ ~is_symlink(fsys, x)
    IN [raised |-> g.raised, files |-> SelectSeq(g.entries, Keep)]

Range(s) == {s[i] : i \in 1..Len(s)}

\* the files the extraction routine was called with
HandedArchives == {handed[i].archive : i \in 1..Len(handed)}

(***************************************************************************)
(* extract_archives                                                        *)
(***************************************************************************)
\* archive_types, as the set literal of extract_archives evaluates: the
\* second and third string are one element, for want of a comma
archive_types ==
    { <<"application", "zip">>,
      <<"application", "x-zip-compressedapplication/x-compressed">>,
      <<"application", "vnd.rar">>,
      <<"application", "x-7z-compressed">>,
      <<"application", "x-freearc">>,
      <<"application", "x-bzip">>,
      <<"application", "x-bzip2">>,
      <<"application", "gzip">>,
      <<"application", "x-gzip">>,
      <<"application", "x-tar">> }

\* file_type[0] in archive_types
IsArchive(zt, p) == guess_type(zt, p) \in archive_types

\* the tree after the extraction routine wrote the names of `members` into outdir
Written(fsys, outdir, members) ==
    [p \in Paths |-> IF \E n \in members : p = Append(outdir, n)
                     THEN "file" ELSE fsys[p]]

(***************************************************************************)
(* import_torrent, step by step.  get_torrent_filepath(torrent) is Root.   *)
(***************************************************************************)
InitSets == {X \in SUBSET FilePaths : Cardinality(X) <= MaxEntries}

\* the trees import_torrent may be pointed at: at most MaxEntries entries,
\* entries inside "sub" only when "sub" is a real directory, nothing under
\* a torrent directory that does not exist
TorrentInit ==
    /\ \E rootKind \in {"dir", "dir_noread", "absent"},
          subKind \in {"absent", "dir", "dir_noread", "link_dir"},
          pipeKind \in {"absent", "fifo", "link_file", "link_dangling"},
          X \in InitSets :
          /\ Cardinality(X) + (IF subKind = "absent" THEN 0 ELSE 1)
                            + (IF pipeKind = "absent" THEN 0 ELSE 1) <= MaxEntries
          /\ subKind \notin {"dir", "dir_noread"} => \A p \in X : Len(p) = 1
          /\ rootKind = "absent" => X = {} /\ subKind = "absent" /\ pipeKind = "absent"
          /\ fs = [p \in Paths |->
                     CASE p = Root -> rootKind
                       [] p = <<SubDir>> -> subKind
                       [] p = <<Pipe>> -> pipeKind
                       [] OTHER -> IF p \in X THEN "file" ELSE "absent"]
    /\ platformZip \in ZipTypes
    /\ pc = "scan"
    /\ all_files = <<>>
    /\ video_files = <<>>
    /\ subtitle_files = <<>>
    /\ idx = 0
    /\ listA = <<>>
    /\ handed = <<>>
    /\ produced = {}
    /\ errorLog = <<>>
    /\ trace = <<>>
    /\ outcome = "running"

\* line 80, and the call of line 82: the first scan; an error of the scan is
\* not caught and leaves import_torrent
Scan ==
    /\ pc = "scan"
    /\ \E desc \in BOOLEAN : \E r \in {list_files_recursively(fs, Root, desc)} :
             IF r.raised
             THEN /\ pc' = "done"
                  /\ outcome' = "raised"
                  /\ trace' = Append(trace, "scan")
                  /\ UNCHANGED <<all_files, listA, idx>>
             ELSE /\ pc' = "expand"
                  /\ all_files' = r.files
                  /\ listA' = r.files
                  /\ idx' = 1
                  /\ trace' = trace \o <<"scan", "expand">>
                  /\ UNCHANGED outcome
    /\ UNCHANGED <<fs, platformZip, video_files, subtitle_files, handed,
                   produced, errorLog>>

\* lines 41-45, one iteration of the loop on a file that is no archive
SkipFile ==
    /\ pc = "expand"
    /\ idx <= Len(all_files)
    /\ ~IsArchive(platformZip, all_files[idx])
    /\ idx' = idx + 1
    /\ UNCHANGED <<fs, platformZip, pc, all_files, video_files, subtitle_files,
                   listA, handed, produced, errorLog, trace, outcome>>

\* an iteration that lets PatoolError leave extract_archives and import_torrent
ExtractFileAborting ==
    /\ pc = "expand"
    /\ idx <= Len(all_files)
    /\ IsArchive(platformZip, all_files[idx])
    /\ LET file == all_files[idx]
       IN /\ handed' = Append(handed, [archive |-> file, outdir |-> Parent(file)])
          /\ \E members \in SUBSET MemberNames, failed \in BOOLEAN :
                /\ Cardinality(members) <= MaxMembers
                /\ fs' = Written(fs, Parent(file), members)
                /\ produced' = produced \cup {Append(Parent(file), n) : n \in members}
                /\ errorLog' = errorLog
                /\ pc' = IF failed THEN "done" ELSE pc
                /\ outcome' = IF failed THEN "raised" ELSE outcome
    /\ idx' = idx + 1
    /\ UNCHANGED <<platformZip, all_files, video_files, subtitle_files,
                   listA, trace>>

\* lines 41-52, one iteration on an archive: the extraction routine runs with
\* the file's parent as output directory, writes some files, and returns or
\* raises PatoolError, which is logged
ExtractFile ==
    /\ pc = "expand"
    /\ idx <= Len(all_files)
    /\ IsArchive(platformZip, all_files[idx])
    /\ LET file == all_files[idx]
       IN /\ handed' = Append(handed, [archive |-> file, outdir |-> Parent(file)])
          /\ \E members \in SUBSET MemberNames, failed \in BOOLEAN :
                /\ Cardinality(members) <= MaxMembers
                /\ fs' = Written(fs, Parent(file), members)
                /\ produced' = produced \cup {Append(Parent(file), n) : n \in members}
                /\ errorLog' = IF failed THEN Append(errorLog, file) ELSE errorLog
    /\ idx' = idx + 1
    /\ UNCHANGED <<platformZip, pc, all_files, video_files, subtitle_files,
                   listA, trace, outcome>>

\* an import_torrent that classifies the first scan's list
RescanSkipped ==
    /\ pc = "expand"
    /\ idx > Len(all_files)
    /\ pc' = "classify"
    /\ trace' = Append(trace, "rescan")
    /\ UNCHANGED <<fs, platformZip, all_files, video_files, subtitle_files, idx,
                   listA, handed, produced, errorLog, outcome>>

\* an import_torrent that expands again while the re-scan finds an archive
\* that was not extracted yet
RescanIterating ==
    /\ pc = "expand"
    /\ idx > Len(all_files)
    /\ \E desc \in BOOLEAN : \E r \in {list_files_recursively(fs, Root, desc)} :
          LET again == \E f \in Range(r.files) :
                          IsArchive(platformZip, f) /\ f \notin HandedArchives
          IN /\ all_files' = r.files
             /\ pc' = IF again THEN "expand" ELSE "classify"
             /\ idx' = IF again THEN 1 ELSE idx
             /\ trace' = IF again THEN trace \o <<"rescan", "expand">>
                                  ELSE Append(trace, "rescan")
    /\ UNCHANGED <<fs, platformZip, video_files, subtitle_files, listA,
                   handed, produced, errorLog, outcome>>

\* line 83: extract_archives has returned; the second scan
Rescan ==
    /\ pc = "expand"
    /\ idx > Len(all_files)
    /\ \E desc \in BOOLEAN : \E r \in {list_files_recursively(fs, Root, desc)} :
             IF r.raised
             THEN /\ pc' = "done"
                  /\ outcome' = "raised"
                  /\ UNCHANGED all_files
             ELSE /\ pc' = "classify"
                  /\ all_files' = r.files
                  /\ UNCHANGED outcome
    /\ trace' = Append(trace, "rescan")
    /\ UNCHANGED <<fs, platformZip, video_files, subtitle_files, idx, listA,
                   handed, produced, errorLog>>

\* line 90
IsVideo(zt, file) ==
    /\ guess_type(zt, file) # NoType
    /\ guess_type(zt, file)[1] = "video"

\* line 93
IsSubtitle(zt, file) ==
    /\ guess_type(zt, file) # NoType
    /\ ~IsVideo(zt, file)
    /\ guess_type(zt, file)[1] = "text"
    /\ Suffix(file) = ".srt"

RECURSIVE Reverse(_)
Reverse(s) == IF s = <<>> THEN <<>> ELSE Append(Reverse(Tail(s)), Head(s))

\* a classification that puts each file at the front of its list
ClassifyPrepending ==
    /\ pc = "classify"
    /\ LET V(f) == IsVideo(platformZip, f)
           S(f) == IsSubtitle(platformZip, f)
       IN /\ video_files' = Reverse(SelectSeq(all_files, V))
          /\ subtitle_files' = Reverse(SelectSeq(all_files, S))
    /\ pc' = "done"
    /\ outcome' = "returned"
    /\ trace' = Append(trace, "classify")
    /\ UNCHANGED <<fs, platformZip, all_files, idx, listA, handed, produced,
                   errorLog>>

\* lines 85-104: the classification loop and the return
Classify ==
    /\ pc = "classify"
    /\ LET V(f) == IsVideo(platformZip, f)
           S(f) == IsSubtitle(platformZip, f)
       IN /\ video_files' = SelectSeq(all_files, V)
          /\ subtitle_files' = SelectSeq(all_files, S)
    /\ pc' = "done"
    /\ outcome' = "returned"
    /\ trace' = Append(trace, "classify")
    /\ UNCHANGED <<fs, platformZip, all_files, idx, listA, handed, produced,
                   errorLog>>

ImportIdle ==
    /\ links = <<>>
    /\ data = <<>>
    /\ ipc = "off"
    /\ call = <<>>
    /\ hist = <<>>

Init == TorrentInit /\ ImportIdle

Next ==
    \/ Scan /\ UNCHANGED ivars
    \/ SkipFile /\ UNCHANGED ivars
    \/ ExtractFile /\ UNCHANGED ivars
    \/ Rescan /\ UNCHANGED ivars
    \/ Classify /\ UNCHANGED ivars

Spec == Init /\ [][Next]_vars

(***************************************************************************)
(* Properties of import_torrent, extract_archives and                      *)
(* list_files_recursively.                                                 *)
(***************************************************************************)
NoDuplicates(s) == \A i, j \in 1..Len(s) : s[i] = s[j] => i = j

RECURSIVE IsSubSeq(_, _)
\* s is t with some elements left out, the rest in t's order
IsSubSeq(s, t) ==
    IF s = <<>> THEN TRUE
    ELSE IF t = <<>> THEN FALSE
    ELSE IF Head(s) = Head(t) THEN IsSubSeq(Tail(s), Tail(t))
    ELSE IsSubSeq(s, Tail(t))

FullTrace == <<"scan", "expand", "rescan", "classify">>

\* all_files is the result of a scan of the tree as it is now
ScanFresh == (pc = "expand" /\ idx = 1) \/ pc = "classify"

\* the proper ancestors of p, the torrent directory included
Ancestors(p) == {SubSeq(p, 1, k) : k \in 0..(Len(p) - 1)}

\* the regular files at any depth under the torrent directory
RegularUnder(fsys) ==
    {p \in Paths \ {Root} :
        /\ fsys[p] = "file"
        /\ \A d \in Ancestors(p) : fsys[d] \in {"dir", "dir_noread"}}

\* the entries that are neither directory nor symbolic link and lie below
\* readable real directories only
PlainReachable(fsys) ==
    {p \in Paths \ {Root} :
        /\ fsys[p] \in {"file", "fifo"}
        /\ \A d \in Ancestors(p) : fsys[d] = "dir"}

\* C1: a failed extraction does not stop the batch: when import_torrent is
\* done it has returned after the re-scan and the classification, and every
\* archive of the first scan was handed to the extraction routine, whichever
\* of them failed.
C1_FailureDoesNotStopBatch ==
    pc = "done" =>
        /\ outcome = "returned"
        /\ trace = FullTrace
        /\ \A f \in Range(listA) : IsArchive(platformZip, f) => f \in HandedArchives
        /\ Range(errorLog) \subseteq HandedArchives

\* C1 witness: an extraction failed and a later archive was still extracted
\* with success, and import_torrent returned.
C1_Witness ==
    /\ pc = "done"
    /\ outcome = "returned"
    /\ \E i, j \in 1..Len(handed) :
          /\ i < j
          /\ handed[i].archive \in Range(errorLog)
          /\ handed[j].archive \notin Range(errorLog)

\* C2: every file an extraction wrote is in the returned all-files list, a
\* video among them in the video list; every archive that was extracted is
\* still a file on disk, is in the all-files list, and is in neither the
\* video nor the subtitle list.
C2_ExtractedFilesListedArchivesKept ==
    (pc = "done" /\ outcome = "returned") =>
        /\ \A p \in produced :
              /\ p \in Range(all_files)
              /\ Suffix(p) = ".mkv" => p \in Range(video_files)
        /\ \A a \in HandedArchives :
              /\ fs[a] = "file"
              /\ a \in Range(all_files)
              /\ a \notin Range(video_files)
              /\ a \notin Range(subtitle_files)

\* C2 witness: a zip was extracted, wrote a video that the first scan had not
\* seen, and the video is in the video list.
C2_Witness ==
    /\ pc = "done"
    /\ \E a \in HandedArchives :
          /\ Suffix(a) = ".zip"
          /\ Append(Parent(a), MkvName) \in produced
          /\ Append(Parent(a), MkvName) \notin Range(listA)
          /\ Append(Parent(a), MkvName) \in Range(video_files)

\* C3 as stated: a scan of an existing directory returns exactly the regular
\* files under it, each once.
C3_Original ==
    (ScanFresh /\ fs[Root] \in {"dir", "dir_noread"}) =>
        /\ Range(all_files) = RegularUnder(fs)
        /\ NoDuplicates(all_files)

\* C3 amended: a scan returns exactly the entries under the directory that
\* are neither directories nor symbolic links (regular files, and special
\* files such as FIFOs) and that lie below readable, non-symlink directories
\* only, each once; no directory and no symbolic link is returned.
C3_ScanReturnsPlainEntries ==
    ScanFresh =>
        /\ Range(all_files) = PlainReachable(fs)
        /\ NoDuplicates(all_files)
        /\ \A p \in Range(all_files) : ~is_dir(fs, p) /\ ~is_symlink(fs, p)

\* C3 witness: a scan of a tree with a symbolic link at the top and a file
\* in a subdirectory, which it returned.
C3_Witness ==
    /\ pc = "classify"
    /\ is_symlink(fs, <<Pipe>>)
    /\ \E p \in Range(all_files) : Len(p) = 2

\* C4: the video list and the subtitle list are sub-sequences of the
\* all-files list, hold no file twice and share no file.
C4_ListsAreDisjointSubsequences ==
    (pc = "done" /\ outcome = "returned") =>
        /\ IsSubSeq(video_files, all_files)
        /\ IsSubSeq(subtitle_files, all_files)
        /\ NoDuplicates(video_files)
        /\ NoDuplicates(subtitle_files)
        /\ Range(video_files) \cap Range(subtitle_files) = {}

\* C4 witness: a classification with two videos and a subtitle.
C4_Witness ==
    /\ pc = "done"
    /\ Len(video_files) >= 2
    /\ Len(subtitle_files) >= 1
    /\ Len(all_files) > Len(video_files) + Len(subtitle_files)

\* C7 as stated: with the torrent directory missing or unreadable the scan
\* fails and import_torrent raises.
C7_Original ==
    (fs[Root] # "dir" /\ pc = "done") => outcome = "raised"

\* C7 amended: with the torrent directory missing or unreadable the scan
\* returns an empty list without an error, and import_torrent returns three
\* empty lists without extracting anything.
C7_MissingRootGivesEmptyLists ==
    (fs[Root] # "dir" /\ pc # "scan") =>
        /\ outcome # "raised"
        /\ all_files = <<>>
        /\ handed = <<>>
        /\ pc = "done" =>
              /\ outcome = "returned"
              /\ video_files = <<>>
              /\ subtitle_files = <<>>

\* C7 witness: import_torrent returned for a torrent directory that is missing.
C7_Witness ==
    /\ fs[Root] = "absent"
    /\ pc = "done"
    /\ outcome = "returned"

\* C8: import_torrent takes the steps scan, expand, re-scan, classify, once
\* each and in this order; only files of the first scan are extracted, each
\* at most once; an archive that an extraction wrote and the first scan had
\* not seen is not extracted, and is in the returned all-files list, which is
\* the re-scan's list.
C8_SingleExpansionPass ==
    (pc = "done" /\ outcome = "returned") =>
        /\ trace = FullTrace
        /\ HandedArchives \subseteq Range(listA)
        /\ \A i, j \in 1..Len(handed) : handed[i].archive = handed[j].archive => i = j
        /\ \A p \in produced \ Range(listA) :
              /\ p \notin HandedArchives
              /\ p \in Range(all_files)
        /\ Range(all_files) = PlainReachable(fs)

\* C8 witness: an extraction wrote an archive that the first scan had not
\* seen; it is in the returned list.
C8_Witness ==
    /\ pc = "done"
    /\ \E p \in produced \ Range(listA) :
          /\ IsArchive(platformZip, p)
          /\ p \in Range(all_files)

\* the archive kinds the specification lists
ClaimedArchiveKinds ==
    { <<"application", "zip">>,
      <<"application", "x-zip-compressed">>,
      <<"application", "x-compressed">>,
      <<"application", "vnd.rar">>,
      <<"application", "x-7z-compressed">>,
      <<"application", "x-freearc">>,
      <<"application", "x-bzip">>,
      <<"application", "x-bzip2">>,
      <<"application", "gzip">>,
      <<"application", "x-gzip">>,
      <<"application", "x-tar">> }

\* C10 as stated: a file of the list is handed to the extraction routine,
\* once and with its parent as output directory, exactly if its detected type
\* is one of the archive kinds, the compressed-zip variant included.
C10_Original ==
    pc \in {"classify", "done"} =>
        \A f \in Range(listA) :
            (guess_type(platformZip, f) \in ClaimedArchiveKinds)
            <=> /\ Cardinality({i \in 1..Len(handed) : handed[i].archive = f}) = 1
                /\ \A i \in 1..Len(handed) :
                      handed[i].archive = f => handed[i].outdir = Parent(f)

(***************************************************************************)
(* import_file.  Its file system is a table of directory entries, path ->  *)
(* inode, and the content of each inode; a hardlink is a second entry for  *)
(* the same inode, a copy is a new inode with the same content.            *)
(***************************************************************************)
ImportPaths == {"downloads/m.mkv", "library/m.mkv", "library/n.mkv"}
Contents == {"x", "y"}
WriterContent == "w"

\* the inode a path has in the initial file system
InitialInode(p) ==
    CASE p = "downloads/m.mkv" -> 1
      [] p = "library/m.mkv" -> 2
      [] p = "library/n.mkv" -> 3

NoCall == [target |-> "", source |-> ""]

\* target_file.exists(), source_file.exists()
exists(p) == links[p] # 0

\* what the content of path p is, "" when there is no entry
ContentOf(lk, dt, p) == IF lk[p] = 0 THEN "" ELSE dt[lk[p]]

ImportInit ==
    /\ \E c \in [ImportPaths -> Contents \cup {""}] :
          /\ links = [p \in ImportPaths |-> IF c[p] = "" THEN 0 ELSE InitialInode(p)]
          /\ data = [i \in 1..3 |->
                       c[CHOOSE p \in ImportPaths : InitialInode(p) = i]]
    /\ ipc = "idle"
    /\ call = NoCall
    /\ hist = <<>>

TorrentIdle ==
    /\ fs = <<>>
    /\ platformZip = NoType
    /\ pc = "off"
    /\ all_files = <<>>
    /\ video_files = <<>>
    /\ subtitle_files = <<>>
    /\ idx = 0
    /\ listA = <<>>
    /\ handed = <<>>
    /\ produced = {}
    /\ errorLog = <<>>
    /\ trace = <<>>
    /\ outcome = "running"

\* an import_file that does not remove an existing destination
ImportCallNoUnlink(t, s) ==
    /\ ipc = "idle"
    /\ Len(hist) < MaxCalls
    /\ exists(s)
    /\ call' = [target |-> t, source |-> s, existed |-> exists(t),
                srcIno |-> links[s], srcData |-> data[links[s]],
                unlinked |-> FALSE, raced |-> FALSE]
    /\ ipc' = "link"
    /\ UNCHANGED <<links, data, hist>>

\* line 60: import_file(target_file, source_file) is called for a source
\* that exists, and tests whether the destination exists
ImportCall(t, s) ==
    /\ ipc = "idle"
    /\ Len(hist) < MaxCalls
    /\ exists(s)
    /\ call' = [target |-> t, source |-> s, existed |-> exists(t),
                srcIno |-> links[s], srcData |-> data[links[s]],
                unlinked |-> FALSE, raced |-> FALSE]
    /\ ipc' = IF exists(t) THEN "unlink" ELSE "link"
    /\ UNCHANGED <<links, data, hist>>

\* line 61: target_file.unlink()
ImportUnlink ==
    /\ ipc = "unlink"
    /\ links' = [links EXCEPT ![call.target] = 0]
    /\ call' = [call EXCEPT !.unlinked = TRUE]
    /\ ipc' = "link"
    /\ UNCHANGED <<data, hist>>

\* another writer creates or replaces the destination while import_file is
\* between two of its steps (once per call)
OtherWriter ==
    /\ ipc \in {"unlink", "link"}
    /\ ~call.raced
    /\ data' = Append(data, WriterContent)
    /\ links' = [links EXCEPT ![call.target] = Len(data) + 1]
    /\ call' = [call EXCEPT !.raced = TRUE]
    /\ UNCHANGED <<ipc, hist>>

\* the record of a completed call
Completed(c, lk, dt, linkError, logged, copied, result, atLink) ==
    [target |-> c.target, source |-> c.source, existed |-> c.existed,
     srcIno |-> c.srcIno, srcData |-> c.srcData, unlinked |-> c.unlinked,
     raced |-> c.raced, inoAtLink |-> atLink, linkError |-> linkError,
     logged |-> logged, copied |-> copied, result |-> result,
     dstIno |-> lk[c.target], dstData |-> ContentOf(lk, dt, c.target),
     srcInoAfter |-> lk[c.source], srcDataAfter |-> ContentOf(lk, dt, c.source)]

\* an import_file with one except clause: FileExistsError falls back to the
\* copy like any other OSError
ImportLinkOneHandler ==
    /\ ipc = "link"
    /\ LET t == call.target
           s == call.source
           copy == [lk |-> [links EXCEPT ![t] = Len(data) + 1],
                    dt |-> Append(data, ContentOf(links, data, s))]
       IN IF ~exists(s)
          THEN /\ hist' = Append(hist, Completed(call, links, data, "ENOENT",
                                   "fallback", FALSE, "raised", links[t]))
               /\ UNCHANGED <<links, data>>
          ELSE IF exists(t)
          THEN /\ links' = copy.lk
               /\ data' = copy.dt
               /\ hist' = Append(hist, Completed(call, copy.lk, copy.dt, "EEXIST",
                                   "fallback", TRUE, "returned", links[t]))
          ELSE /\ links' = [links EXCEPT ![t] = links[s]]
               /\ hist' = Append(hist, Completed(call, links', data, "none",
                                   "none", FALSE, "returned", links[t]))
               /\ UNCHANGED data
    /\ ipc' = "idle"
    /\ call' = NoCall

\* lines 62-71: the hardlink attempt and its handlers.  os.link fails with
\* FileNotFoundError when the source has no entry, with FileExistsError when
\* the destination has one, and otherwise succeeds or fails as the platform
\* decides (a cross-device link); FileExistsError is logged; any other OSError
\* is logged and followed by shutil.copy, which raises when the source has no
\* entry
ImportLink ==
    /\ ipc = "link"
    /\ LET t == call.target
           s == call.source
           copy == [lk |-> [links EXCEPT ![t] = Len(data) + 1],
                    dt |-> Append(data, ContentOf(links, data, s))]
       IN IF ~exists(s)
          THEN /\ hist' = Append(hist, Completed(call, links, data, "ENOENT",
                                   "fallback", FALSE, "raised", links[t]))
               /\ UNCHANGED <<links, data>>
          ELSE IF exists(t)
          THEN /\ hist' = Append(hist, Completed(call, links, data, "EEXIST",
                                   "exists", FALSE, "returned", links[t]))
               /\ UNCHANGED <<links, data>>
          ELSE \E linkable \in BOOLEAN :
                  IF linkable
                  THEN /\ links' = [links EXCEPT ![t] = links[s]]
                       /\ hist' = Append(hist, Completed(call, links', data, "none",
                                           "none", FALSE, "returned", links[t]))
                       /\ UNCHANGED data
                  ELSE /\ links' = copy.lk
                       /\ data' = copy.dt
                       /\ hist' = Append(hist, Completed(call, copy.lk, copy.dt, "EXDEV",
                                           "fallback", TRUE, "returned", links[t]))
    /\ ipc' = "idle"
    /\ call' = NoCall

InitImport == ImportInit /\ TorrentIdle

NextImport ==
    \/ \E t \in ImportPaths, s \in ImportPaths : ImportCall(t, s) /\ UNCHANGED tvars
    \/ ImportUnlink /\ UNCHANGED tvars
    \/ OtherWriter /\ UNCHANGED tvars
    \/ ImportLink /\ UNCHANGED tvars

SpecImport == InitImport /\ [][NextImport]_vars

(***************************************************************************)
(* Properties of import_file.                                              *)
(***************************************************************************)
\* a call into a destination that did not exist, with no other writer
FreshImport(c) == ~c.raced /\ ~c.existed

\* the destination is there with the content the source had
MatchesSource(c) ==
    /\ c.result = "returned"
    /\ c.dstIno # 0
    /\ c.dstData = c.srcData

\* C5: with no other writer, import_file into a destination that does not
\* exist leaves the destination there with the content of the source; the
\* same call made again finds the destination, removes it first, succeeds,
\* and leaves the destination with the content of the source.
C5_ImportAndReimport ==
    \A k \in 1..Len(hist) :
        /\ FreshImport(hist[k]) => MatchesSource(hist[k]) /\ ~hist[k].unlinked
        /\ ( /\ k > 1
             /\ FreshImport(hist[k - 1])
             /\ hist[k].target = hist[k - 1].target
             /\ hist[k].source = hist[k - 1].source
             /\ ~hist[k].raced )
           => /\ hist[k].existed
              /\ hist[k].unlinked
              /\ MatchesSource(hist[k])

\* C5 witness: an import into a fresh destination that fell back to the
\* copy, then the same import again, which removed the destination and made
\* a hardlink.
C5_Witness ==
    /\ Len(hist) = 2
    /\ FreshImport(hist[1])
    /\ hist[1].copied
    /\ hist[2].target = hist[1].target
    /\ hist[2].source = hist[1].source
    /\ ~hist[2].raced
    /\ hist[2].unlinked
    /\ hist[2].dstIno = hist[2].srcIno

\* C6 as stated: whenever the hardlink fails for another reason than the
\* destination existing, for every source and destination, the destination
\* ends as an independent copy with the content of the source, and the
\* source is still there with its content.
C6_Original ==
    \A k \in 1..Len(hist) :
        hist[k].linkError \in {"ENOENT", "EXDEV"} =>
            /\ hist[k].copied
            /\ hist[k].dstIno # 0
            /\ hist[k].dstIno # hist[k].srcIno
            /\ hist[k].dstData = hist[k].srcData
            /\ hist[k].srcInoAfter = hist[k].srcIno
            /\ hist[k].srcDataAfter = hist[k].srcData

\* C9: when another writer has made the destination exist at the time of the
\* link attempt, import_file logs the error, makes no copy, leaves the
\* destination as the writer made it, and returns without raising.
C9_RaceIsLoggedAndSkipped ==
    \A k \in 1..Len(hist) :
        hist[k].inoAtLink # 0 =>
            /\ hist[k].raced
            /\ hist[k].linkError = "EEXIST"
            /\ hist[k].logged = "exists"
            /\ ~hist[k].copied
            /\ hist[k].result = "returned"
            /\ hist[k].dstIno = hist[k].inoAtLink
            /\ hist[k].dstData = WriterContent

\* C9 witness: the destination existed, import_file removed it, the other
\* writer made it again before the link, and a later import went on.
C9_Witness ==
    /\ Len(hist) = 2
    /\ hist[1].existed
    /\ hist[1].unlinked
    /\ hist[1].inoAtLink # 0
    /\ hist[1].result = "returned"
    /\ hist[2].result = "returned"
    /\ hist[2].dstIno = hist[2].srcIno

====
